---- MODULE Spec2Model ----
(***************************************************************************)
(* Model of ai/gemini_util.py: the Gemini facade over a chat-model client. *)
(*                                                                         *)
(* The facade holds three fields (model, api_key, llm) and offers          *)
(* call_llm, call_llm_json, describe_video, __str__ and __repr__.  The     *)
(* wrapped client, the file system and the interpreter's asynchronous      *)
(* interrupts are the environment: they answer with a value or raise.      *)
(* Calls are synchronous and single-threaded, so one call is in progress   *)
(* at a time; pc is its position.  A Python str whose characters matter    *)
(* (credential, model identifier, base64 text, text representation) is a   *)
(* sequence of one-character strings; an opaque text is a TLA+ string.     *)
(***************************************************************************)
EXTENDS Integers, Sequences, FiniteSets, TLC

VARIABLES
    model,          \* self.model
    api_key,        \* self.api_key
    llm,            \* self.llm, the client handle built at construction
    pc,             \* position of the call in progress
    op,             \* the operation the caller invoked
    messages,       \* messages argument / local of the call
    stream,         \* stream argument of call_llm
    structure,      \* structure argument of call_llm_json
    structured_llm, \* local of call_llm_json
    video_path,     \* video_path argument of describe_video
    open_files,     \* file handles currently open
    disk,           \* bytes of the file, as found when it is read
    encoded_video,  \* local of describe_video
    requests,       \* requests issued to the client during this call
    inflight,       \* client invocations issued and not yet completed
    client_reply,   \* what the client's invoke did (value or error)
    fault,          \* the exception raised inside the call, if any
    log,            \* log records emitted during this call
    outcome         \* what the caller of the operation observes

vars == << model, api_key, llm, pc, op, messages, stream, structure,
           structured_llm, video_path, open_files, disk, encoded_video,
           requests, inflight, client_reply, fault, log, outcome >>

facade == << model, api_key, llm >>

(***************************************************************************)
(* Bounds of the model.                                                    *)
(***************************************************************************)
MaxKeyLen == 2      \* longest credential
MaxFileLen == 3     \* longest file, in bytes
MaxMsgs == 2        \* longest message sequence passed by a caller

(***************************************************************************)
(* Python values.                                                          *)
(***************************************************************************)
None == [t |-> "None", v |-> ""]
PyStr(s) == [t |-> "str", v |-> s]
AIMessage(content) == [t |-> "AIMessage", v |-> content]
BareObject == [t |-> "object", v |-> ""]
Structured(s) == [t |-> "structured", v |-> s]

Returns(val) == [kind |-> "return", val |-> val, exc |-> ""]
Raises(e) == [kind |-> "raise", val |-> None, exc |-> e]
Pending == [kind |-> "pending", val |-> None, exc |-> ""]
NoFault == [step |-> "none", exc |-> ""]

\* Classes derived from Exception; KeyboardInterrupt derives from
\* BaseException only.
ExceptionClasses == { "FileNotFoundError", "OSError", "MemoryError",
                      "ConnectionError", "ValidationError", "ValueError",
                      "AttributeError" }
IsException(e) == e \in ExceptionClasses

(***************************************************************************)
(* Inputs and environment answers.                                         *)
(***************************************************************************)
RECURSIVE SeqsUpTo(_, _)
SeqsUpTo(S, n) ==
    IF n = 0 THEN { << >> }
    ELSE LET shorter == SeqsUpTo(S, n - 1)
         IN  shorter \cup { Append(q, x) : q \in shorter, x \in S }

\* The default of the model parameter of __init__.
DefaultModel == << "m", "o", "d", "e", "l", "s", "/", "g", "e", "m", "i", "n", "i", "-",
                  "1", ".", "5", "-", "f", "l", "a", "s", "h" >>

KeyChars == { "s", "*" }
\* A credential is a non-empty key.
Credentials == SeqsUpTo(KeyChars, MaxKeyLen) \ { << >> }
ModelIds == { DefaultModel, << "g", "*" >> }

ByteValues == { 0, 77, 255 }
FileContents == SeqsUpTo(ByteValues, MaxFileLen)
Paths == { "clip.mp4", "missing.mp4" }
Exists(path) == path = "clip.mp4"

TextPart(text) == [type |-> "text", text |-> text]
Message(role, text) == [role |-> role, content |-> << TextPart(text) >>]
CallerMessages == { Message("user", "Hello"), Message("system", "Be brief") }
MessageSeqs == SeqsUpTo(CallerMessages, MaxMsgs) \ { << >> }
Structures == { "Reel", "Caption" }

\* What invoke of the chat client can do: return a message, return an
\* object that is not a message, raise, or be interrupted.
LlmReplies == { Returns(AIMessage("A cat jumps.")), Returns(AIMessage("")),
                Returns(BareObject),
                Raises("ConnectionError"), Raises("KeyboardInterrupt") }
\* What invoke of a schema-bound client can do.
StructuredReplies(s) == { Returns(Structured(s)),
                          Raises("ValidationError"), Raises("ConnectionError"),
                          Raises("KeyboardInterrupt") }

(***************************************************************************)
(* base64.b64encode(data).decode("utf-8") and its inverse.                 *)
(***************************************************************************)
B64Alphabet ==
    << "A", "B", "C", "D", "E", "F", "G", "H", "I", "J", "K", "L", "M",
       "N", "O", "P", "Q", "R", "S", "T", "U", "V", "W", "X", "Y", "Z",
       "a", "b", "c", "d", "e", "f", "g", "h", "i", "j", "k", "l", "m",
       "n", "o", "p", "q", "r", "s", "t", "u", "v", "w", "x", "y", "z",
       "0", "1", "2", "3", "4", "5", "6", "7", "8", "9", "+", "/" >>
PadChar == "="

\* ord() of the i-th symbol of the alphabet (0-based), as b64encode emits it.
B64Byte(i) == IF i < 26 THEN 65 + i
              ELSE IF i < 52 THEN 97 + (i - 26)
              ELSE IF i < 62 THEN 48 + (i - 52)
              ELSE IF i = 62 THEN 43 ELSE 47
PadByte == 61

\* Variant of b64encode that encodes whole 3-byte groups only and drops a
\* trailing group of one or two bytes.
RECURSIVE b64encode_whole_groups(_)
b64encode_whole_groups(data) ==
    IF Len(data) < 3 THEN << >>
    ELSE
        LET n == data[1] * 65536 + data[2] * 256 + data[3]
        IN  << B64Byte(n \div 262144), B64Byte((n \div 4096) % 64),
               B64Byte((n \div 64) % 64), B64Byte(n % 64) >>
            \o b64encode_whole_groups(SubSeq(data, 4, Len(data)))

RECURSIVE b64encode(_)
b64encode(data) ==
    IF Len(data) = 0 THEN << >>
    ELSE IF Len(data) = 1 THEN
        LET n == data[1] * 16
        IN  << B64Byte(n \div 64), B64Byte(n % 64), PadByte, PadByte >>
    ELSE IF Len(data) = 2 THEN
        LET n == (data[1] * 256 + data[2]) * 4
        IN  << B64Byte(n \div 4096), B64Byte((n \div 64) % 64),
               B64Byte(n % 64), PadByte >>
    ELSE
        LET n == data[1] * 65536 + data[2] * 256 + data[3]
        IN  << B64Byte(n \div 262144), B64Byte((n \div 4096) % 64),
               B64Byte((n \div 64) % 64), B64Byte(n % 64) >>
            \o b64encode(SubSeq(data, 4, Len(data)))

\* bytes.decode("utf-8") on the ASCII bytes b64encode produces.
Chr(b) == IF b = PadByte THEN PadChar
          ELSE B64Alphabet[CHOOSE i \in 1..64 : B64Byte(i - 1) = b]
decode_utf8(bs) == [i \in 1..Len(bs) |-> Chr(bs[i])]

(***************************************************************************)
(* Construction.                                                           *)
(***************************************************************************)
\* The client handle ChatGoogleGenerativeAI(...) built by __init__.
ChatGoogleGenerativeAI(m, k) ==
    [model |-> m, api_key |-> k, temperature |-> 0, max_tokens |-> "None",
     timeout |-> "None", max_retries |-> 2, schema |-> ""]

\* llm.with_structured_output(structure): a new runnable bound to the
\* schema; the receiver is left as it was.
with_structured_output(client, s) == [client EXCEPT !.schema = s]

NoClient == [schema |-> "unset"]

__init__(k, m) == [model |-> m, api_key |-> k, llm |-> ChatGoogleGenerativeAI(m, k)]

(***************************************************************************)
(* Logging.                                                                *)
(***************************************************************************)
Info(msg) == [level |-> "INFO", msg |-> msg, arg |-> ""]
Error(msg, e) == [level |-> "ERROR", msg |-> msg, arg |-> e]

(***************************************************************************)
(* __str__ and __repr__.                                                   *)
(***************************************************************************)
MaskChar == "*"
Mask(n) == [i \in 1..n |-> MaskChar]
ReprHead == << "G", "e", "m", "i", "n", "i", "(", "m", "o", "d", "e", "l", "=" >>
ReprMid == << ",", " ", "a", "p", "i", "_", "k", "e", "y", "=" >>
ReprTail == << ")" >>

\* Variant of __str__ that prints the credential itself.
str_unmasked(self_model, self_api_key) ==
    ReprHead \o self_model \o ReprMid \o self_api_key \o ReprTail

__str__(self_model, self_api_key) ==
    ReprHead \o self_model \o ReprMid \o Mask(Len(self_api_key)) \o ReprTail

__repr__(self_model, self_api_key) ==
    ReprHead \o self_model \o ReprMid \o Mask(Len(self_api_key)) \o ReprTail

(***************************************************************************)
(* call_llm.                                                               *)
(***************************************************************************)
\* Variant of call_llm_request that forwards the last message only.
call_llm_request_last(client, msgs, s) ==
    [client |-> client, input |-> << msgs[Len(msgs)] >>]

\* The request self.llm.invoke(messages) puts to the client.
call_llm_request(client, msgs, s) == [client |-> client, input |-> msgs]

\* Records logged once invoke has answered: none when it raised.
call_llm_log(reply, s) ==
    IF reply.kind = "return" THEN << Info("Response Genereted from LLM") >>
    ELSE << >>

\* Variant of call_llm_outcome that swallows an error and returns None.
call_llm_outcome_swallowing(reply, s) ==
    IF reply.kind = "raise" THEN Returns(None) ELSE reply

\* Variant of call_llm_outcome that honours the stream flag by handing
\* back a generator over the response instead of the response.
call_llm_outcome_streaming(reply, s) ==
    IF s /\ reply.kind = "return"
    THEN Returns([t |-> "generator", v |-> reply.val.v])
    ELSE reply

\* What call_llm hands to its caller: the response, or the error as raised.
call_llm_outcome(reply, s) == reply

\* Lines 63-64 up to the blocking invoke.
call_llm_enter(msgs, s) ==
    /\ messages' = msgs
    /\ stream' = s
    /\ log' = << Info("Caling LLM...........................") >>
    /\ requests' = << call_llm_request(llm, msgs, s) >>
    /\ inflight' = 1

FaultOf(reply, step) ==
    IF reply.kind = "raise" THEN [step |-> step, exc |-> reply.exc] ELSE NoFault

NoFileLocals ==
    /\ video_path' = ""
    /\ open_files' = {}
    /\ disk' = << >>
    /\ encoded_video' = << >>

NoSchemaLocals ==
    /\ structure' = ""
    /\ structured_llm' = NoClient

Callable == pc \in { "idle", "done" }

call_llm ==
    /\ Callable
    /\ \E msgs \in MessageSeqs, s \in BOOLEAN : call_llm_enter(msgs, s)
    /\ op' = "call_llm"
    /\ pc' = "call_llm_invoke"
    /\ client_reply' = Pending
    /\ fault' = NoFault
    /\ outcome' = Pending
    /\ NoFileLocals
    /\ NoSchemaLocals
    /\ UNCHANGED facade

\* Variant of call_llm_returns that issues the call a second time when the
\* first one raised.
call_llm_returns_retrying ==
    /\ pc = "call_llm_invoke"
    /\ op = "call_llm"
    /\ \E reply \in LlmReplies :
        /\ client_reply' = reply
        /\ fault' = FaultOf(reply, "invoke")
        /\ log' = log \o call_llm_log(reply, stream)
        /\ IF reply.kind = "raise" /\ Len(requests) = 1
           THEN /\ requests' = Append(requests, requests[1])
                /\ inflight' = inflight
                /\ outcome' = outcome
                /\ pc' = pc
           ELSE /\ requests' = requests
                /\ inflight' = inflight - 1
                /\ outcome' = call_llm_outcome(reply, stream)
                /\ pc' = "done"
    /\ UNCHANGED << facade, op, messages, stream, structure, structured_llm,
                    video_path, open_files, disk, encoded_video >>

call_llm_returns ==
    /\ pc = "call_llm_invoke"
    /\ op = "call_llm"
    /\ \E reply \in LlmReplies :
        /\ client_reply' = reply
        /\ fault' = FaultOf(reply, "invoke")
        /\ log' = log \o call_llm_log(reply, stream)
        /\ outcome' = call_llm_outcome(reply, stream)
    /\ inflight' = inflight - 1
    /\ pc' = "done"
    /\ UNCHANGED << facade, op, messages, stream, structure, structured_llm,
                    video_path, open_files, disk, encoded_video, requests >>

(***************************************************************************)
(* call_llm_json.                                                          *)
(***************************************************************************)
\* Variant of call_llm_json_bind that stores the bound runnable in self.llm.
call_llm_json_bind_rebinding(msgs, s) ==
    /\ structured_llm' = with_structured_output(llm, s)
    /\ llm' = structured_llm'
    /\ requests' = << [client |-> structured_llm', input |-> msgs] >>
    /\ inflight' = 1
    /\ UNCHANGED << model, api_key >>

\* Lines 75-76 up to the blocking invoke: the bound runnable is a local,
\* self.llm is not assigned.
call_llm_json_bind(msgs, s) ==
    /\ structured_llm' = with_structured_output(llm, s)
    /\ requests' = << [client |-> structured_llm', input |-> msgs] >>
    /\ inflight' = 1
    /\ UNCHANGED facade

call_llm_json ==
    /\ Callable
    /\ op' = "call_llm_json"
    /\ log' = << Info("Caling LLM...........................") >>
    /\ client_reply' = Pending
    /\ stream' = FALSE
    /\ NoFileLocals
    /\ \E msgs \in MessageSeqs, s \in Structures :
        /\ messages' = msgs
        /\ structure' = s
        /\ \/ \* with_structured_output rejects the schema
              /\ structured_llm' = NoClient
              /\ requests' = << >>
              /\ inflight' = 0
              /\ fault' = [step |-> "bind", exc |-> "ValueError"]
              /\ outcome' = Raises("ValueError")
              /\ pc' = "done"
              /\ UNCHANGED facade
           \/ \* the bound runnable is invoked
              /\ call_llm_json_bind(msgs, s)
              /\ fault' = NoFault
              /\ outcome' = Pending
              /\ pc' = "call_llm_json_invoke"

call_llm_json_returns ==
    /\ pc = "call_llm_json_invoke"
    /\ \E reply \in StructuredReplies(structure) :
        /\ client_reply' = reply
        /\ fault' = FaultOf(reply, "invoke")
        /\ log' = IF reply.kind = "return"
                  THEN Append(log, Info("Response Genereted from LLM in strcutured json format"))
                  ELSE log
        /\ outcome' = reply
    /\ inflight' = inflight - 1
    /\ pc' = "done"
    /\ UNCHANGED << facade, op, messages, stream, structure, structured_llm,
                    video_path, open_files, disk, encoded_video, requests >>

(***************************************************************************)
(* describe_video.                                                         *)
(***************************************************************************)
\* Variant of with_exit for a file opened without a with block and never
\* closed.
with_exit_leaking(files, path) == files

\* Leaving the with block closes the file, on a normal exit and on an
\* exception alike.
with_exit(files, path) == files \ { path }

\* video_file.read(): the whole file.
read(data) == data

\* The request body built from the encoded file.
describe_video_messages(encoded) ==
    << [role |-> "user",
        content |-> << [type |-> "text", text |-> "Describe this video."],
                       [type |-> "video", raw_bytes |-> encoded] >>] >>

\* getattr(response, "content") succeeds on a message only.
HasContent(val) == val.t = "AIMessage"

\* Variant of except_Exception that catches OSError and its subclasses only.
except_OSError(e) ==
    IF e \in { "OSError", "FileNotFoundError", "ConnectionError" }
    THEN [outcome |-> Returns(None),
          log |-> << Error("Error describing video: ", e) >>]
    ELSE [outcome |-> Raises(e), log |-> << >>]

\* except Exception as e: log and return None; anything that is not an
\* Exception is not caught and leaves describe_video.
except_Exception(e) ==
    IF IsException(e)
    THEN [outcome |-> Returns(None),
          log |-> << Error("Error describing video: ", e) >>]
    ELSE [outcome |-> Raises(e), log |-> << >>]

\* Variant of describe_video_finish that returns None for an empty
\* description, without an exception and without a log record.
describe_video_finish_falsy(inner) ==
    IF inner.kind = "raise" THEN except_Exception(inner.exc)
    ELSE IF HasContent(inner.val)
         THEN [outcome |-> IF inner.val.v = "" THEN Returns(None)
                           ELSE Returns(PyStr(inner.val.v)),
               log |-> << >>]
         ELSE except_Exception("AttributeError")

\* Lines 108-115, given what call_llm handed back.
describe_video_finish(inner) ==
    IF inner.kind = "raise" THEN except_Exception(inner.exc)
    ELSE IF HasContent(inner.val)
         THEN [outcome |-> Returns(PyStr(inner.val.v)), log |-> << >>]
         ELSE except_Exception("AttributeError")

\* Entry and open(video_path, "rb").
describe_video ==
    /\ Callable
    /\ op' = "describe_video"
    /\ messages' = << >>
    /\ stream' = FALSE
    /\ requests' = << >>
    /\ inflight' = 0
    /\ client_reply' = Pending
    /\ encoded_video' = << >>
    /\ NoSchemaLocals
    /\ \E path \in Paths :
        /\ video_path' = path
        /\ IF Exists(path)
           THEN /\ open_files' = { path }
                /\ disk' = << >>
                /\ fault' = NoFault
                /\ log' = << >>
                /\ outcome' = Pending
                /\ pc' = "describe_video_read"
           ELSE LET handled == except_Exception("FileNotFoundError")
                IN  /\ open_files' = {}
                    /\ disk' = << >>
                    /\ fault' = [step |-> "open", exc |-> "FileNotFoundError"]
                    /\ log' = handled.log
                    /\ outcome' = handled.outcome
                    /\ pc' = "done"
    /\ UNCHANGED facade

\* Lines 94-108 up to the blocking invoke: read, encode, leave the with
\* block, build the message, enter call_llm.
describe_video_read ==
    /\ pc = "describe_video_read"
    /\ open_files' = with_exit(open_files, video_path)
    /\ \/ \E e \in { [step |-> "read", exc |-> "OSError"],
                     [step |-> "encode", exc |-> "MemoryError"] } :
            LET handled == except_Exception(e.exc)
            IN  /\ fault' = e
                /\ log' = handled.log
                /\ outcome' = handled.outcome
                /\ pc' = "done"
                /\ UNCHANGED << messages, stream, disk, encoded_video,
                                requests, inflight >>
       \/ \E data \in FileContents :
            LET encoded == decode_utf8(b64encode(read(data)))
            IN  /\ disk' = data
                /\ encoded_video' = encoded
                /\ call_llm_enter(describe_video_messages(encoded), FALSE)
                /\ pc' = "call_llm_invoke"
                /\ UNCHANGED << fault, outcome >>
    /\ UNCHANGED << facade, op, structure, structured_llm, video_path,
                    client_reply >>

\* invoke answers inside the call_llm that describe_video made; call_llm
\* and then describe_video run to their ends.
describe_video_returns ==
    /\ pc = "call_llm_invoke"
    /\ op = "describe_video"
    /\ \E reply \in LlmReplies :
        LET inner == call_llm_outcome(reply, stream)
            finish == describe_video_finish(inner)
        IN  /\ client_reply' = reply
            /\ fault' = IF reply.kind = "raise" THEN FaultOf(reply, "invoke")
                        ELSE IF HasContent(reply.val) THEN NoFault
                        ELSE [step |-> "content", exc |-> "AttributeError"]
            /\ log' = log \o call_llm_log(reply, stream) \o finish.log
            /\ outcome' = finish.outcome
    /\ inflight' = inflight - 1
    /\ pc' = "done"
    /\ UNCHANGED << facade, op, messages, stream, structure, structured_llm,
                    video_path, open_files, disk, encoded_video, requests >>

(***************************************************************************)
(* str(gemini) and repr(gemini).                                           *)
(***************************************************************************)
NoCallLocals ==
    /\ messages' = << >>
    /\ stream' = FALSE
    /\ requests' = << >>
    /\ inflight' = 0
    /\ client_reply' = Pending
    /\ fault' = NoFault
    /\ log' = << >>
    /\ NoFileLocals
    /\ NoSchemaLocals

str ==
    /\ Callable
    /\ op' = "__str__"
    /\ outcome' = Returns(PyStr(__str__(model, api_key)))
    /\ pc' = "done"
    /\ NoCallLocals
    /\ UNCHANGED facade

repr ==
    /\ Callable
    /\ op' = "__repr__"
    /\ outcome' = Returns(PyStr(__repr__(model, api_key)))
    /\ pc' = "done"
    /\ NoCallLocals
    /\ UNCHANGED facade

(***************************************************************************)
(* Specification.                                                          *)
(***************************************************************************)
Init ==
    /\ \E k \in Credentials, m \in ModelIds :
        LET self == __init__(k, m)
        IN  /\ model = self.model
            /\ api_key = self.api_key
            /\ llm = self.llm
    /\ pc = "idle"
    /\ op = "none"
    /\ messages = << >>
    /\ stream = FALSE
    /\ structure = ""
    /\ structured_llm = NoClient
    /\ video_path = ""
    /\ open_files = {}
    /\ disk = << >>
    /\ encoded_video = << >>
    /\ requests = << >>
    /\ inflight = 0
    /\ client_reply = Pending
    /\ fault = NoFault
    /\ log = << >>
    /\ outcome = Pending

Next ==
    \/ call_llm
    \/ call_llm_returns
    \/ call_llm_json
    \/ call_llm_json_returns
    \/ describe_video
    \/ describe_video_read
    \/ describe_video_returns
    \/ str
    \/ repr

Spec == Init /\ [][Next]_vars

(***************************************************************************)
(* Properties.                                                             *)
(***************************************************************************)
Done(o) == pc = "done" /\ op = o
ErrorCount(records) ==
    Cardinality({ i \in 1..Len(records) : records[i].level = "ERROR" })
Failed == fault # NoFault
Contains(text, sub) ==
    \E i \in 0..(Len(text) - Len(sub)) : SubSeq(text, i + 1, i + Len(sub)) = sub
MaskCount(text) == Cardinality({ i \in 1..Len(text) : text[i] = MaskChar })
Chars(text) == { text[i] : i \in 1..Len(text) }

\* base64.b64decode of a str: the reference decoder used to state round trips.
B64Index(c) == (CHOOSE i \in 1..64 : B64Alphabet[i] = c) - 1
RECURSIVE b64decode(_)
b64decode(text) ==
    IF Len(text) < 4 THEN << >>
    ELSE
        LET a == B64Index(text[1])
            b == B64Index(text[2])
            rest == b64decode(SubSeq(text, 5, Len(text)))
        IN  IF text[3] = PadChar THEN << (a * 4 + b \div 16) % 256 >>
            ELSE IF text[4] = PadChar THEN
                LET c == B64Index(text[3])
                IN  << (a * 4 + b \div 16) % 256,
                       ((b % 16) * 16 + c \div 4) % 256 >>
            ELSE
                LET c == B64Index(text[3])
                    d == B64Index(text[4])
                IN  << (a * 4 + b \div 16) % 256,
                       ((b % 16) * 16 + c \div 4) % 256,
                       ((c % 4) * 64 + d) % 256 >> \o rest

\* C1 as stated: describe_video never lets an exception escape; whatever
\* fails, it returns None and logs exactly one error-level record.
C1_NeverThrows ==
    Done("describe_video") =>
        /\ outcome.kind = "return"
        /\ Failed => outcome = Returns(None) /\ ErrorCount(log) = 1

\* C1 amended: every failure that is an Exception (open, read, encode, the
\* client call, a response without content) ends in None with exactly one
\* error-level record naming it, and nothing derived from Exception escapes;
\* what escapes is not an Exception (KeyboardInterrupt) and is not logged.
C1_FailSoft ==
    Done("describe_video") =>
        /\ (Failed /\ IsException(fault.exc)) =>
              /\ outcome = Returns(None)
              /\ ErrorCount(log) = 1
              /\ log[Len(log)] = Error("Error describing video: ", fault.exc)
        /\ outcome.kind = "raise" =>
              /\ ~IsException(outcome.exc)
              /\ outcome.exc = fault.exc
              /\ ErrorCount(log) = 0

C1_Witness ==
    /\ Done("describe_video")
    /\ fault = [step |-> "invoke", exc |-> "ConnectionError"]
    /\ outcome = Returns(None)

\* C2: call_llm and call_llm_json are fail-fast: an error raised by the
\* client, the schema binding or the schema validation reaches the caller
\* as raised, no value is returned and nothing is logged as an error or
\* retried.
C2_FailFast ==
    (pc = "done" /\ op \in { "call_llm", "call_llm_json" } /\ Failed) =>
        /\ outcome = Raises(fault.exc)
        /\ ErrorCount(log) = 0
        /\ Len(log) = 1
        /\ Len(requests) <= 1

C2_Witness ==
    /\ Done("call_llm")
    /\ fault = [step |-> "invoke", exc |-> "ConnectionError"]
    /\ outcome = Raises("ConnectionError")

C4_Request ==
    (op = "describe_video" /\ (pc = "call_llm_invoke" \/ client_reply # Pending)) =>
        /\ Len(requests) = 1
        /\ requests[1].client = llm
        /\ LET sent == requests[1].input
           IN  /\ Len(sent) = 1
               /\ sent[1].role = "user"
               /\ Len(sent[1].content) = 2
               /\ sent[1].content[1] = [type |-> "text", text |-> "Describe this video."]
               /\ DOMAIN sent[1].content[2] = { "type", "raw_bytes" }
               /\ sent[1].content[2].type = "video"
               /\ b64decode(sent[1].content[2].raw_bytes) = disk
               /\ Len(sent[1].content[2].raw_bytes) = 4 * ((Len(disk) + 2) \div 3)

C4_Witness ==
    /\ op = "describe_video"
    /\ pc = "call_llm_invoke"
    /\ disk = << 255, 77 >>
    /\ requests[1].input[1].content[2].raw_bytes = << "/", "0", "0", "=" >>

\* C5 as stated: whatever the credential and the model identifier, the
\* text representation does not contain the credential and holds exactly
\* as many mask characters as the credential has characters.
C5_NoCredential ==
    (pc = "done" /\ op \in { "__str__", "__repr__" }) =>
        /\ ~Contains(outcome.val.v, api_key)
        /\ MaskCount(outcome.val.v) = Len(api_key)

\* C5 amended: the representation is the fixed text with the model
\* identifier and, in the credential's place, mask characters only, as many
\* as the credential has characters; it does not contain the credential
\* whenever the credential has a character that is neither the mask
\* character nor a character of the fixed text or of the model identifier.
C5_Masked ==
    (pc = "done" /\ op \in { "__str__", "__repr__" }) =>
        LET text == outcome.val.v
            before == ReprHead \o model \o ReprMid
            n == Len(api_key)
        IN  /\ Len(text) = Len(before) + n + 1
            /\ SubSeq(text, 1, Len(before)) = before
            /\ \A i \in (Len(before) + 1)..(Len(before) + n) : text[i] = MaskChar
            /\ text[Len(text)] = ")"
            /\ (Chars(api_key) \ (Chars(before) \cup { MaskChar, ")" }) # {})
                  => ~Contains(text, api_key)

C5_Witness ==
    /\ Done("__str__")
    /\ api_key = << "s", "*" >>
    /\ model = << "g", "*" >>
    /\ ~Contains(outcome.val.v, api_key)

\* C6: no operation changes model, api_key or the client handle held in
\* llm, and every request goes to a client of that same identity.
C6_IdentityFixed ==
    /\ [][model' = model /\ api_key' = api_key /\ llm' = llm]_vars
    /\ [](/\ llm = ChatGoogleGenerativeAI(model, api_key)
          /\ \A i \in 1..Len(requests) :
                /\ requests[i].client.model = model
                /\ requests[i].client.api_key = api_key)

C6_Witness ==
    /\ Done("call_llm_json")
    /\ outcome.kind = "return"
    /\ structured_llm.schema = "Reel"
    /\ llm.schema = ""

\* C7: the stream flag changes nothing: the request, the log records and
\* the result of a call_llm are those the opposite flag value gives for the
\* same messages and the same answer of the client.
C7_StreamIgnored ==
    (op = "call_llm" /\ pc \in { "call_llm_invoke", "done" }) =>
        /\ requests = << call_llm_request(llm, messages, ~stream) >>
        /\ pc = "done" =>
              /\ outcome = call_llm_outcome(client_reply, ~stream)
              /\ log = << Info("Caling LLM...........................") >>
                       \o call_llm_log(client_reply, ~stream)

C7_Witness ==
    /\ Done("call_llm")
    /\ stream = TRUE
    /\ outcome = Returns(AIMessage("A cat jumps."))

\* C8: describe_video returns None only after an exception that it logged
\* at error level, and without an exception it returns the content of the
\* response.
C8_NoneMeansFailure ==
    Done("describe_video") =>
        /\ outcome = Returns(None) => (Failed /\ ErrorCount(log) = 1)
        /\ ~Failed => outcome = Returns(PyStr(client_reply.val.v))

C8_Witness ==
    /\ Done("describe_video")
    /\ ~Failed
    /\ client_reply = Returns(AIMessage(""))
    /\ outcome = Returns(PyStr(""))

\* C9 as stated: every invocation of call_llm, call_llm_json or
\* describe_video issues one call to the client and returns after it.
C9_OneCall ==
    (pc = "done" /\ op \in { "call_llm", "call_llm_json", "describe_video" }) =>
        /\ Len(requests) = 1
        /\ inflight = 0

\* C9 amended: an invocation issues at most one call to the client, never
\* a second one after a failure, and returns only once that call has
\* completed; it issues exactly one unless it fails before reaching the
\* client (open, read or encode in describe_video, binding the schema in
\* call_llm_json), and then it issues none.
C9_AtMostOneCall ==
    /\ Len(requests) <= 1
    /\ inflight \in 0..Len(requests)
    /\ outcome # Pending => inflight = 0
    /\ (pc = "done" /\ op \in { "call_llm", "call_llm_json", "describe_video" }) =>
          /\ Len(requests) = 1 <=> client_reply # Pending
          /\ Len(requests) = 0 <=> fault.step \in { "open", "read", "encode", "bind" }

C9_Witness ==
    /\ Done("describe_video")
    /\ fault = [step |-> "invoke", exc |-> "ConnectionError"]
    /\ Len(requests) = 1
    /\ inflight = 0

\* C10: the file describe_video opens is closed whenever describe_video is
\* left, with a description, with None or with an exception; a handle is
\* open only between open and the end of the with block.
C10_HandleReleased ==
    /\ pc # "describe_video_read" => open_files = {}
    /\ pc = "describe_video_read" => open_files = { video_path }

C10_Witness ==
    /\ Done("describe_video")
    /\ fault = [step |-> "read", exc |-> "OSError"]
    /\ open_files = {}

====
